---- MODULE Spec2Model ----
(***************************************************************************)
(* A model of the term / matcher / triple-view core of sophia_rs:          *)
(*   - LiteralKind equality and hashing   (sophia/src/term/_literal_kind.rs)*)
(*   - the built-in TermMatcher variants  (sophia/src/term/matcher.rs)      *)
(*   - the Triple -> Quad view adapters   (sophia/src/triple.rs)            *)
(*   - the TriG quad stream               (sophia/src/parser/trig.rs)       *)
(*   - the canonical rendering of terms   (term/src/_display.rs)            *)
(*                                                                         *)
(* Text is a sequence of characters; a character is a one-character string,*)
(* or "U+XXXX" for a non-ASCII code point.  An Option is a sequence of     *)
(* length 0 (None) or 1 (Some).                                            *)
(***************************************************************************)
EXTENDS Integers, Sequences, FiniteSets, TLC

VARIABLES
    k, kout,                    \* three LiteralKinds under comparison, last result
    m, t, mout,                 \* a matcher, a candidate term, last result
    triple, quad, orig, qout,   \* a triple, its quad adapter, the wrapped original
    parser, stream, pout,       \* TriGParser, the quad source it returned, last pull
    dterm, dout                 \* a term and the buffer it was written into

vars == <<k, kout, m, t, mout, triple, quad, orig, qout, parser, stream, pout, dterm, dout>>

kvars == <<k, kout>>
mvars == <<m, t, mout>>
qvars == <<triple, quad, orig, qout>>
pvars == <<parser, stream, pout>>
dvars == <<dterm, dout>>

\* ------------------------------------------------------------------ bounds

MaxTagLen == 2

\* --------------------------------------------------------------- generic

None == <<>>
Some(x) == <<x>>
IsSome(o) == Len(o) = 1
Unwrap(o) == o[1]

\* All sequences over S of length lo..hi.
SeqsOf(S, lo, hi) == UNION {[1..n -> S] : n \in lo..hi}

Idle == <<>>
\* No operation has been applied yet.
NoOut == [op |-> "none", val |-> <<>>]

\* The parts of the state a specification leaves untouched.
IdleK == k = Idle /\ kout = NoOut
IdleM == m = Idle /\ t = Idle /\ mout = NoOut
IdleQ == triple = Idle /\ quad = Idle /\ orig = Idle /\ qout = NoOut
IdleP == parser = Idle /\ stream = Idle /\ pout = NoOut
IdleD == dterm = Idle /\ dout = NoOut

\* ------------------------------------------------------ storage (TermData)

\* The storage strategies a term's text may use: Box<str>, Rc<str>, &str.
BoxTd == "Box"
RcTd == "Rc"
RefTd == "Ref"
TermDatas == {BoxTd, RcTd, RefTd}

\* A piece of text held under a storage strategy; the factory of that strategy.
Factory(td, s) == [td |-> td, s |-> s]
\* T: AsRef<str>
AsRef(x) == x.s

\* ---------------------------------------------------------------- std str

AsciiUpper == {"F", "R"}
AsciiLowerOf == [c \in AsciiUpper |-> IF c = "F" THEN "f" ELSE "r"]
\* u8::to_ascii_lowercase: only A-Z change.
to_ascii_lowercase(c) == IF c \in AsciiUpper THEN AsciiLowerOf[c] ELSE c

\* char::to_lowercase: the Unicode mapping, which also lowers U+00C9 to U+00E9.
char_to_lowercase(c) ==
    IF c \in AsciiUpper THEN AsciiLowerOf[c]
    ELSE IF c = "U+00C9" THEN "U+00E9"
    ELSE c

\* str::eq_ignore_ascii_case: same length and pairwise equal after
\* to_ascii_lowercase.
eq_ignore_ascii_case(s1, s2) ==
    /\ Len(s1) = Len(s2)
    /\ \A i \in 1..Len(s1) : to_ascii_lowercase(s1[i]) = to_ascii_lowercase(s2[i])

\* str::to_lowercase: a new String, every char lowered.
to_lowercase(s) == [i \in 1..Len(s) |-> char_to_lowercase(s[i])]

\* <str as Hash>::hash: the bytes, then the 0xff terminator.
str_hash(state, s) == state \o s \o <<"0xff">>

\* -------------------------------------------------------------------- Iri

\* Iri<T> { ns: T, suffix: Option<T> }
MkIri(td, ns, suffix) ==
    [ns |-> Factory(td, ns),
     suffix |-> IF suffix = <<>> THEN None ELSE Some(Factory(td, suffix))]

\* The fully reconstructed text of an IRI.
IriValue(iri) ==
    AsRef(iri.ns) \o (IF IsSome(iri.suffix) THEN AsRef(Unwrap(iri.suffix)) ELSE <<>>)

\* Iri == Iri: content equality, whatever the split and the storage.
Iri_eq(i1, i2) == IriValue(i1) = IriValue(i2)

\* Iri::hash: the content, whatever the split.
Iri_hash(state, iri) == str_hash(state, IriValue(iri))

\* Iri::copy_with
Iri_copy_with(iri, td) ==
    [ns |-> Factory(td, AsRef(iri.ns)),
     suffix |-> IF IsSome(iri.suffix)
                THEN Some(Factory(td, AsRef(Unwrap(iri.suffix))))
                ELSE None]

\* Every way of cutting a text into a namespace and an optional suffix.
SplitsOf(td, txt) ==
    {MkIri(td, txt, <<>>)} \cup
    {MkIri(td, SubSeq(txt, 1, i), SubSeq(txt, i + 1, Len(txt))) : i \in 1..(Len(txt) - 1)}

XsdString == <<"x", "#", "s">>
XsdInteger == <<"x", "#", "i">>

\* ------------------------------------------------------------ LiteralKind

Lang(tag) == [variant |-> "Lang", tag |-> tag]
Datatype(iri) == [variant |-> "Datatype", iri |-> iri]

\* LiteralKind::from_with
LiteralKind_from_with(other, td) ==
    IF other.variant = "Lang"
    THEN Lang(Factory(td, AsRef(other.tag)))
    ELSE Datatype(Iri_copy_with(other.iri, td))

\* impl Hash for LiteralKind, hashing the tag as it is stored.
LiteralKind_hash_raw(state, self) ==
    IF self.variant = "Datatype"
    THEN Iri_hash(state, self.iri)
    ELSE str_hash(state, AsRef(self.tag))

\* impl Hash for LiteralKind
LiteralKind_hash(state, self) ==
    IF self.variant = "Datatype"
    THEN Iri_hash(state, self.iri)
    ELSE str_hash(state, to_lowercase(AsRef(self.tag)))

\* impl PartialEq, lowering the left tag only.
LiteralKind_eq_lhs_lowered(self, other) ==
    IF self.variant = "Lang" /\ other.variant = "Lang"
    THEN to_lowercase(AsRef(self.tag)) = AsRef(other.tag)
    ELSE IF self.variant = "Datatype" /\ other.variant = "Datatype"
    THEN Iri_eq(self.iri, other.iri)
    ELSE FALSE

\* impl PartialEq, comparing the tags byte for byte.
LiteralKind_eq_case_sensitive(self, other) ==
    IF self.variant = "Lang" /\ other.variant = "Lang"
    THEN AsRef(self.tag) = AsRef(other.tag)
    ELSE IF self.variant = "Datatype" /\ other.variant = "Datatype"
    THEN Iri_eq(self.iri, other.iri)
    ELSE FALSE

\* impl PartialEq<LiteralKind<U>> for LiteralKind<T>
LiteralKind_eq(self, other) ==
    IF self.variant = "Lang" /\ other.variant = "Lang"
    THEN eq_ignore_ascii_case(AsRef(self.tag), AsRef(other.tag))
    ELSE IF self.variant = "Datatype" /\ other.variant = "Datatype"
    THEN Iri_eq(self.iri, other.iri)
    ELSE FALSE

\* ------------------------------------------------------------------- Term

\* enum Term<T> { Iri, BNode, Literal, Variable }
IriTerm(iri) == [variant |-> "Iri", iri |-> iri]
BNode(td, id) == [variant |-> "BNode", id |-> Factory(td, id)]
Literal(td, txt, kind) == [variant |-> "Literal", txt |-> Factory(td, txt), kind |-> kind]
Variable(td, name) == [variant |-> "Variable", name |-> Factory(td, name)]

\* Term == Term, across storage strategies: same variant and same content.
Term_eq(t1, t2) ==
    IF t1.variant = "Iri" /\ t2.variant = "Iri"
    THEN Iri_eq(t1.iri, t2.iri)
    ELSE IF t1.variant = "BNode" /\ t2.variant = "BNode"
    THEN AsRef(t1.id) = AsRef(t2.id)
    ELSE IF t1.variant = "Literal" /\ t2.variant = "Literal"
    THEN AsRef(t1.txt) = AsRef(t2.txt) /\ LiteralKind_eq(t1.kind, t2.kind)
    ELSE IF t1.variant = "Variable" /\ t2.variant = "Variable"
    THEN AsRef(t1.name) = AsRef(t2.name)
    ELSE FALSE

\* Term::value: the text of the term.
Term_value(self) ==
    IF self.variant = "Iri" THEN IriValue(self.iri)
    ELSE IF self.variant = "BNode" THEN AsRef(self.id)
    ELSE IF self.variant = "Literal" THEN AsRef(self.txt)
    ELSE AsRef(self.name)

\* RefTerm::from(&Term<T>): the same term, borrowing its text.
RefTerm_from(self) ==
    IF self.variant = "Iri" THEN IriTerm(Iri_copy_with(self.iri, RefTd))
    ELSE IF self.variant = "BNode" THEN BNode(RefTd, AsRef(self.id))
    ELSE IF self.variant = "Literal"
    THEN Literal(RefTd, AsRef(self.txt), LiteralKind_from_with(self.kind, RefTd))
    ELSE Variable(RefTd, AsRef(self.name))

\* ------------------------------------ equality by content, stated directly

\* The two cases of one ASCII letter.
CasePairs == {{"f", "F"}, {"r", "R"}}

\* Two texts that differ at most in the case of ASCII letters.
SameIgnoringAsciiCase(s1, s2) ==
    /\ Len(s1) = Len(s2)
    /\ \A i \in 1..Len(s1) : s1[i] = s2[i] \/ {s1[i], s2[i]} \in CasePairs

\* Two kinds with the same content: both language tags, equal up to case, or
\* both datatypes with the same IRI text.
SameKind(a, b) ==
    \/ /\ a.variant = "Lang"
       /\ b.variant = "Lang"
       /\ SameIgnoringAsciiCase(a.tag.s, b.tag.s)
    \/ /\ a.variant = "Datatype"
       /\ b.variant = "Datatype"
       /\ IriValue(a.iri) = IriValue(b.iri)

\* Two terms with the same content, whatever their storage and IRI split.
SameTerm(a, b) ==
    /\ a.variant = b.variant
    /\ Term_value(a) = Term_value(b)
    /\ a.variant = "Literal" => SameKind(a.kind, b.kind)

\* The language tags and datatype IRIs the kinds are drawn from.
TagChars == {"f", "F"}
NonAsciiTags == {<<"U+00C9">>, <<"U+00E9">>}
Tags == SeqsOf(TagChars, 1, MaxTagLen) \cup NonAsciiTags
DatatypeTexts == {XsdString, XsdInteger}

KindsOf(td) ==
    {Lang(Factory(td, tag)) : tag \in Tags} \cup
    {Datatype(iri) : iri \in UNION {SplitsOf(td, txt) : txt \in DatatypeTexts}}

\* The storage strategy of each of the three slots.
SlotTd == <<BoxTd, RcTd, RefTd>>
Slots == 1..3

InitKind ==
    /\ k \in {f \in [Slots -> UNION {KindsOf(td) : td \in TermDatas}] :
                \A i \in Slots : f[i] \in KindsOf(SlotTd[i])}
    /\ kout = NoOut
    /\ IdleM /\ IdleQ /\ IdleP /\ IdleD

\* a == b and b == a, for the first two slots.
KEq ==
    /\ kout' = [op |-> "eq",
                val |-> <<LiteralKind_eq(k[1], k[2]), LiteralKind_eq(k[2], k[1])>>]
    /\ UNCHANGED <<k, mvars, qvars, pvars, dvars>>

\* Both slots hashed, each into a fresh hasher.
KHash ==
    /\ kout' = [op |-> "hash",
                val |-> <<LiteralKind_hash(<<>>, k[1]), LiteralKind_hash(<<>>, k[2])>>]
    /\ UNCHANGED <<k, mvars, qvars, pvars, dvars>>

\* Slot j := LiteralKind::from_with(&slot i, factory of slot j's storage).
KFromWith(i, j) ==
    /\ i # j
    /\ k' = [k EXCEPT ![j] = LiteralKind_from_with(k[i], SlotTd[j])]
    /\ kout' = [op |-> "from_with", val |-> <<i, j>>]
    /\ UNCHANGED <<mvars, qvars, pvars, dvars>>

\* Cow: a borrowed view of the receiver, or a newly built owned value.
Borrowed(x) == [cow |-> "Borrowed", val |-> x]
Owned(x) == [cow |-> "Owned", val |-> x]

\* Normalization: the policies an IRI's namespace/suffix cut can be held to.
Normalization == {"NoSuffix", "LastHashOrSlash"}

GapChars == {"#", "/"}

\* The length of the namespace that ends at the last '#' or '/' of a text
\* (the whole text when it holds neither).
LastGap(txt) ==
    LET gaps == {i \in 1..Len(txt) : txt[i] \in GapChars}
    IN  IF gaps = {} THEN Len(txt) ELSE CHOOSE i \in gaps : \A j \in gaps : j <= i

\* Iri::normalized: the receiver itself when its cut already is the one the
\* policy asks for, otherwise a new IRI of the same text cut as asked.
Iri_normalized(iri, policy) ==
    LET txt == IriValue(iri)
        td == iri.ns.td
        cut == IF policy = "NoSuffix" THEN Len(txt) ELSE LastGap(txt)
        want == MkIri(td, SubSeq(txt, 1, cut), SubSeq(txt, cut + 1, Len(txt)))
    IN  IF iri = want THEN Borrowed(iri) ELSE Owned(want)

\* A normalized that always answers a new owned value.
LiteralKind_normalized_always_owned(self, policy) ==
    IF self.variant = "Lang"
    THEN Owned(self)
    ELSE Owned(Datatype(Iri_normalized(self.iri, policy).val))

\* LiteralKind::normalized
LiteralKind_normalized(self, policy) ==
    IF self.variant = "Lang"
    THEN Borrowed(self)
    ELSE LET iri == Iri_normalized(self.iri, policy)
         IN  IF iri.cow = "Borrowed"
             THEN Borrowed(self)
             ELSE Owned(Datatype(iri.val))

\* The storages that can be built from a String, which normalized requires
\* (T: From<String>): the boxed and the reference-counted slot.
OwnedSlots == {i \in Slots : SlotTd[i] \in {BoxTd, RcTd}}

\* kind.normalized(policy) on one of the kinds of owned storage.
KNormalized(i, policy) ==
    /\ kout' = [op |-> "normalized", slot |-> i, policy |-> policy,
                val |-> LiteralKind_normalized(k[i], policy)]
    /\ UNCHANGED <<k, mvars, qvars, pvars, dvars>>


NextKind ==
    \/ KEq
    \/ KHash
    \/ \E i, j \in Slots : KFromWith(i, j)
    \/ \E i \in OwnedSlots, policy \in Normalization : KNormalized(i, policy)

SpecKind == InitKind /\ [][NextKind]_vars

\* C2: comparing two LiteralKinds of any two storage strategies, in either
\* operand order, answers true exactly when both are Lang with tags equal up
\* to ASCII case, or both are Datatype with the same IRI; a Lang kind never
\* equals a Datatype kind.
C2_KindEquality ==
    kout.op = "eq" =>
        /\ kout.val[1] = SameKind(k[1], k[2])
        /\ kout.val[2] = SameKind(k[1], k[2])
        /\ k[1].variant # k[2].variant => kout.val = <<FALSE, FALSE>>

\* Two Lang kinds whose tags differ in case only, of different storage, were
\* compared and found equal.
C2_Witness ==
    /\ kout.op = "eq"
    /\ k[1].variant = "Lang"
    /\ k[2].variant = "Lang"
    /\ k[1].tag.s # k[2].tag.s
    /\ k[1].tag.td # k[2].tag.td
    /\ kout.val = <<TRUE, TRUE>>

\* The two cases of one letter, ASCII or not, and the upper-case letters.
LetterPairs == CasePairs \cup {{"U+00C9", "U+00E9"}}
UpperChars == AsciiUpper \cup {"U+00C9"}

\* C3: equal kinds hash equally, and a Lang kind feeds the hasher its tag
\* lower-cased: the same letters, none of them upper-case, then the
\* terminator.
C3_HashConsistent ==
    kout.op = "hash" =>
        /\ LiteralKind_eq(k[1], k[2]) => kout.val[1] = kout.val[2]
        /\ \A i \in 1..2 :
              k[i].variant = "Lang" =>
                 /\ Len(kout.val[i]) = Len(k[i].tag.s) + 1
                 /\ \A j \in 1..Len(k[i].tag.s) :
                       /\ kout.val[i][j] \notin UpperChars
                       /\ \/ kout.val[i][j] = k[i].tag.s[j]
                          \/ {kout.val[i][j], k[i].tag.s[j]} \in LetterPairs

\* Two equal Lang kinds whose tags differ in case were hashed.
C3_Witness ==
    /\ kout.op = "hash"
    /\ k[1].variant = "Lang"
    /\ k[2].variant = "Lang"
    /\ k[1].tag.s # k[2].tag.s
    /\ LiteralKind_eq(k[1], k[2])
    /\ kout.val[1] = kout.val[2]

\* The literal terms built from the three kinds, each in its slot's storage.
LiteralTexts == {<<"c">>, <<"d">>}
LiteralsOf(i) == {Literal(SlotTd[i], txt, k[i]) : txt \in LiteralTexts}

\* C4: equality is reflexive, symmetric and transitive on LiteralKinds held
\* under three different storage strategies, and on the literals built from
\* them.
C4_Equivalence ==
    /\ \A a \in Slots : LiteralKind_eq(k[a], k[a])
    /\ \A a, b \in Slots : LiteralKind_eq(k[a], k[b]) => LiteralKind_eq(k[b], k[a])
    /\ \A a, b, c \in Slots :
          LiteralKind_eq(k[a], k[b]) /\ LiteralKind_eq(k[b], k[c])
             => LiteralKind_eq(k[a], k[c])
    /\ \A a \in Slots : \A x \in LiteralsOf(a) : Term_eq(x, x)
    /\ \A a, b \in Slots : \A x \in LiteralsOf(a), y \in LiteralsOf(b) :
          Term_eq(x, y) => Term_eq(y, x)
    /\ \A a, b, c \in Slots :
          \A x \in LiteralsOf(a), y \in LiteralsOf(b), z \in LiteralsOf(c) :
             Term_eq(x, y) /\ Term_eq(y, z) => Term_eq(x, z)

\* Three kinds with three different tags, of three storage strategies, all
\* equal to one another, after a comparison.
C4_Witness ==
    /\ kout.op = "eq"
    /\ \A a \in Slots : k[a].variant = "Lang"
    /\ Cardinality({k[a].tag.s : a \in Slots}) = 3
    /\ Cardinality({k[a].tag.td : a \in Slots}) = 3
    /\ LiteralKind_eq(k[1], k[2])
    /\ LiteralKind_eq(k[2], k[3])
    /\ LiteralKind_eq(k[1], k[3])

\* Whether an IRI's cut is the one a policy asks for, read off the cut itself.
SatisfiesPolicy(iri, policy) ==
    IF policy = "NoSuffix"
    THEN iri.suffix = None
    ELSE LET ns == AsRef(iri.ns)
             sf == IF IsSome(iri.suffix) THEN AsRef(Unwrap(iri.suffix)) ELSE <<>>
         IN  /\ \A i \in 1..Len(sf) : sf[i] \notin GapChars
             /\ IF \E i \in 1..Len(ns) : ns[i] \in GapChars
                THEN ns[Len(ns)] \in GapChars
                ELSE sf = <<>>

\* C12: normalized answers the receiver itself, borrowed, for every Lang kind
\* under every policy and for every Datatype kind whose IRI already satisfies
\* the policy; otherwise it answers an owned value, which is a Datatype kind
\* carrying the IRI's own rewritten form (same text, cut as the policy asks).
\* The variant never changes.
C12_NormalizedFrame ==
    kout.op = "normalized" =>
        LET self == k[kout.slot]
            res == kout.val
        IN  /\ res.val.variant = self.variant
            /\ self.variant = "Lang" => res = Borrowed(self)
            /\ self.variant = "Datatype" /\ SatisfiesPolicy(self.iri, kout.policy) =>
                   res = Borrowed(self)
            /\ self.variant = "Datatype" /\ ~SatisfiesPolicy(self.iri, kout.policy) =>
                   /\ res.cow = "Owned"
                   /\ res.val = Datatype(Iri_normalized(self.iri, kout.policy).val)
                   /\ res.val.iri # self.iri
                   /\ IriValue(res.val.iri) = IriValue(self.iri)
                   /\ SatisfiesPolicy(res.val.iri, kout.policy)
            /\ res.cow = "Owned" =>
                   /\ self.variant = "Datatype"
                   /\ Iri_normalized(self.iri, kout.policy).cow = "Owned"

\* An uncut datatype IRI x#s is rewritten into the cut x# + s.
C12_Witness ==
    /\ kout.op = "normalized"
    /\ kout.policy = "LastHashOrSlash"
    /\ k[kout.slot] = Datatype(MkIri(SlotTd[kout.slot], XsdString, <<>>))
    /\ kout.val = Owned(Datatype(MkIri(SlotTd[kout.slot], <<"x", "#">>, <<"s">>)))
\* ------------------------------------------------------------ TermMatcher

MaxSliceLen == 3
\* impl_for_array!(2) ... impl_for_array!(12)
ArrayMin == 2
ArrayMax == 12

\* The matcher values: ANY, AnyOrExactly<Term>, Term, [Term], [Term; N], Fn.
AnyTerm == [variant |-> "AnyTerm"]
AnyOrExactly_Any == [variant |-> "AnyOrExactly", exactly |-> None]
AnyOrExactly_Exactly(x) == [variant |-> "AnyOrExactly", exactly |-> Some(x)]
TermAsMatcher(x) == [variant |-> "Term", term |-> x]
SliceOf(ts) == [variant |-> "Slice", terms |-> ts]
ArrayOf(ts) == [variant |-> "Array", terms |-> ts]
FnOf(f) == [variant |-> "Fn", f |-> f]

\* impl From<Option<T>> for AnyOrExactly<T>
AnyOrExactly_from(other) ==
    IF other = None THEN AnyOrExactly_Any ELSE AnyOrExactly_Exactly(Unwrap(other))

\* impl TermMatcher for AnyTerm
AnyTerm_constant(self) == None
AnyTerm_matches(self, x) == TRUE

\* impl TermMatcher for AnyOrExactly<Term<U>>
AnyOrExactly_constant(self) ==
    IF self.exactly = None THEN None ELSE Some(Unwrap(self.exactly))

\* AnyOrExactly::matches with the Exactly arm answering as the Any arm does.
AnyOrExactly_matches_always(self, x) == TRUE

AnyOrExactly_matches(self, x) ==
    IF self.exactly = None THEN TRUE ELSE Term_eq(Unwrap(self.exactly), x)

\* impl TermMatcher for Term<U>
Term_constant(self) == Some(self.term)

\* Term::matches comparing the representations, not the contents.
Term_matches_identical(self, x) == x = self.term

Term_matches(self, x) == Term_eq(x, self.term)

\* impl TermMatcher for [Term<U>]
Slice_constant(self) ==
    IF Len(self.terms) = 1 THEN Some(self.terms[1]) ELSE None

\* `for term in self { if t == term { return true; } } false`, from index i on.
RECURSIVE Slice_scan(_, _, _)
Slice_scan(terms, i, x) ==
    IF i > Len(terms) THEN FALSE
    ELSE IF Term_eq(x, terms[i]) THEN TRUE
    ELSE Slice_scan(terms, i + 1, x)

\* [Term]::matches answering on the first member alone.
Slice_matches_first_only(self, x) ==
    IF Len(self.terms) = 0 THEN FALSE ELSE Term_eq(x, self.terms[1])

Slice_matches(self, x) == Slice_scan(self.terms, 1, x)

\* Array::constant exposing the member of a de-facto singleton.
Array_constant_singleton(self) ==
    IF \A i \in 1..Len(self.terms) : Term_eq(self.terms[i], self.terms[1])
    THEN Some(self.terms[1])
    ELSE None

\* impl TermMatcher for [Term<U>; N]
Array_constant(self) == None

RECURSIVE Array_scan(_, _, _)
Array_scan(terms, i, x) ==
    IF i > Len(terms) THEN FALSE
    ELSE IF Term_eq(x, terms[i]) THEN TRUE
    ELSE Array_scan(terms, i + 1, x)

Array_matches(self, x) == Array_scan(self.terms, 1, x)

\* The closures used as matchers: |t: &RefTerm| t.value().starts_with(..),
\* and one testing the variant.
Closures == {"value_starts_with_c", "is_literal"}
CallClosure(f, rt) ==
    IF f = "value_starts_with_c"
    THEN Len(Term_value(rt)) > 0 /\ Term_value(rt)[1] = "c"
    ELSE rt.variant = "Literal"

\* impl<F: Fn(&RefTerm) -> bool> TermMatcher for F
Fn_constant(self) == None
Fn_matches(self, x) == CallClosure(self.f, RefTerm_from(x))

\* TermMatcher::constant, dispatched on the implementing type.
TermMatcher_constant(self) ==
    CASE self.variant = "AnyTerm" -> AnyTerm_constant(self)
      [] self.variant = "AnyOrExactly" -> AnyOrExactly_constant(self)
      [] self.variant = "Term" -> Term_constant(self)
      [] self.variant = "Slice" -> Slice_constant(self)
      [] self.variant = "Array" -> Array_constant(self)
      [] self.variant = "Fn" -> Fn_constant(self)

\* TermMatcher::matches, dispatched on the implementing type.
TermMatcher_matches(self, x) ==
    CASE self.variant = "AnyTerm" -> AnyTerm_matches(self, x)
      [] self.variant = "AnyOrExactly" -> AnyOrExactly_matches(self, x)
      [] self.variant = "Term" -> Term_matches(self, x)
      [] self.variant = "Slice" -> Slice_matches(self, x)
      [] self.variant = "Array" -> Array_matches(self, x)
      [] self.variant = "Fn" -> Fn_matches(self, x)

\* The terms of the matcher tests: one IRI stored whole in a Box and cut in
\* two in an Rc, another IRI, a literal under two spellings of its language
\* tag and as a plain string, a blank node and a variable of the same text.
Champin == <<"c", "#", "p">>
ExampleOrg == <<"e", "/">>
MTerms ==
    {IriTerm(MkIri(BoxTd, Champin, <<>>)),
     IriTerm(MkIri(RcTd, <<"c", "#">>, <<"p">>)),
     IriTerm(MkIri(RcTd, ExampleOrg, <<>>)),
     Literal(BoxTd, <<"c">>, Lang(Factory(BoxTd, <<"f">>))),
     Literal(RcTd, <<"c">>, Lang(Factory(RcTd, <<"F">>))),
     Literal(RcTd, <<"c">>, Datatype(MkIri(RcTd, <<"x", "#">>, <<"s">>))),
     BNode(BoxTd, <<"c">>),
     Variable(RefTd, <<"c">>)}

\* Long arrays hold these two members only.
ArrayElems ==
    {IriTerm(MkIri(BoxTd, Champin, <<>>)), IriTerm(MkIri(RcTd, ExampleOrg, <<>>))}

\* Option<Term>
OptTerms == {None} \cup {Some(x) : x \in MTerms}

Matchers ==
    {AnyTerm}
    \cup {AnyOrExactly_from(o) : o \in OptTerms}
    \cup {TermAsMatcher(x) : x \in MTerms}
    \cup {SliceOf(ts) : ts \in SeqsOf(MTerms, 0, MaxSliceLen)}
    \cup {ArrayOf(ts) : ts \in SeqsOf(MTerms, ArrayMin, MaxSliceLen)}
    \cup {ArrayOf(ts) : ts \in SeqsOf(ArrayElems, ArrayMin, ArrayMax)}
    \cup {FnOf(f) : f \in Closures}

InitMatcher ==
    /\ m \in Matchers
    /\ t \in MTerms
    /\ mout = NoOut
    /\ IdleK /\ IdleQ /\ IdleP /\ IdleD

\* m.matches(&t)
MMatches ==
    /\ mout' = [op |-> "matches", val |-> TermMatcher_matches(m, t)]
    /\ UNCHANGED <<m, t, kvars, qvars, pvars, dvars>>

\* m.constant()
MConstant ==
    /\ mout' = [op |-> "constant", val |-> TermMatcher_constant(m)]
    /\ UNCHANGED <<m, t, kvars, qvars, pvars, dvars>>

\* &m[..]: an array used through its slice.
MAsSlice ==
    /\ m.variant = "Array"
    /\ m' = SliceOf(m.terms)
    /\ mout' = [op |-> "as_slice", val |-> <<>>]
    /\ UNCHANGED <<t, kvars, qvars, pvars, dvars>>

NextMatcher ==
    \/ MMatches
    \/ MConstant
    \/ MAsSlice

SpecMatcher == InitMatcher /\ [][NextMatcher]_vars

\* The members of a slice or an array, as a set.
Members(self) == {self.terms[i] : i \in 1..Len(self.terms)}

BoxChampin == IriTerm(MkIri(BoxTd, Champin, <<>>))
RcChampinCut == IriTerm(MkIri(RcTd, <<"c", "#">>, <<"p">>))

\* C1: whenever a matcher reports a constant c, it matches exactly the terms
\* with the content of c, whatever their storage strategy and however their
\* IRI is cut into namespace and suffix.
C1_ConstantConsistent ==
    /\ mout.op = "matches" =>
          LET c == TermMatcher_constant(m)
          IN IsSome(c) => (mout.val <=> SameTerm(t, Unwrap(c)))
    /\ mout.op = "constant" =>
          (IsSome(mout.val) =>
              (TermMatcher_matches(m, t) <=> SameTerm(t, Unwrap(mout.val))))

\* A term stored whole in a Box, used as matcher, matched the same IRI cut in
\* two in an Rc.
C1_Witness ==
    /\ mout.op = "matches"
    /\ m = TermAsMatcher(BoxChampin)
    /\ t = RcChampinCut
    /\ mout.val = TRUE

\* C7: a slice matches a term iff the term has the content of one of its
\* members (as a set: neither order nor duplicates count, and the empty
\* slice matches nothing); its constant is its member when it has exactly one
\* and None for every other length.
C7_Slice ==
    m.variant = "Slice" =>
        /\ mout.op = "matches" =>
              mout.val = (\E x \in Members(m) : SameTerm(t, x))
        /\ mout.op = "constant" =>
              mout.val = (IF Len(m.terms) = 1 THEN Some(m.terms[1]) ELSE None)

\* A slice of several members matched a term equal to its last member only.
C7_Witness ==
    /\ m.variant = "Slice"
    /\ mout.op = "matches"
    /\ Len(m.terms) = MaxSliceLen
    /\ SameTerm(t, m.terms[Len(m.terms)])
    /\ \A i \in 1..(Len(m.terms) - 1) : ~SameTerm(t, m.terms[i])
    /\ mout.val = TRUE

\* C8: an array of 2 to 12 terms matches as the slice of the same members
\* does, and never reports a constant, even when all its members are equal.
C8_Array ==
    m.variant = "Array" =>
        /\ Len(m.terms) \in ArrayMin..ArrayMax
        /\ mout.op = "matches" =>
              /\ mout.val = (\E x \in Members(m) : SameTerm(t, x))
              /\ mout.val = Slice_matches(SliceOf(m.terms), t)
        /\ mout.op = "constant" => mout.val = None

\* An array of twelve equal members was asked for its constant.
C8_Witness ==
    /\ m.variant = "Array"
    /\ Len(m.terms) = ArrayMax
    /\ \A x \in Members(m) : SameTerm(x, m.terms[1])
    /\ SameTerm(t, m.terms[1])
    /\ mout.op = "constant"
    /\ mout.val = None

\* C9: ANY matches every term and has no constant; AnyOrExactly built from
\* None does the same, and built from Some(x) it has constant x and matches
\* as x itself used as a matcher: the terms with the content of x.
C9_Wildcard ==
    /\ m = AnyTerm =>
          /\ mout.op = "matches" => mout.val = TRUE
          /\ mout.op = "constant" => mout.val = None
    /\ \A o \in OptTerms :
          m = AnyOrExactly_from(o) =>
             /\ mout.op = "matches" =>
                   IF o = None THEN mout.val = TRUE
                   ELSE /\ mout.val = SameTerm(t, Unwrap(o))
                        /\ mout.val = Term_matches(TermAsMatcher(Unwrap(o)), t)
             /\ mout.op = "constant" => mout.val = o
    /\ m.variant = "AnyOrExactly" => \E o \in OptTerms : m = AnyOrExactly_from(o)

\* AnyOrExactly built from Some(x) refused a term of another content.
C9_Witness ==
    /\ m = AnyOrExactly_from(Some(BoxChampin))
    /\ ~SameTerm(t, BoxChampin)
    /\ mout.op = "matches"
    /\ mout.val = FALSE

\* ----------------------------------------------------------- Triple, Quad

\* The types implementing Triple: [Term<T>; 3], [&Term<T>; 3] and &T.
ArrayTriple(s, p, o) == [impl |-> "array", terms |-> <<s, p, o>>]
RefArrayTriple(s, p, o) == [impl |-> "refarray", terms |-> <<s, p, o>>]
RefTriple(tr) == [impl |-> "ref", to |-> tr]

\* Triple::s, Triple::p, Triple::o of the three implementations; a reference
\* forwards to the triple it points to.
RECURSIVE Triple_s(_)
Triple_s(self) == IF self.impl = "ref" THEN Triple_s(self.to) ELSE self.terms[1]

RECURSIVE Triple_p(_)
Triple_p(self) == IF self.impl = "ref" THEN Triple_p(self.to) ELSE self.terms[2]

RECURSIVE Triple_o(_)
Triple_o(self) == IF self.impl = "ref" THEN Triple_o(self.to) ELSE self.terms[3]

\* struct TripleAsQuad<T>(T), struct TripleAsQuadFrom<T>(T, Term)
TripleAsQuad(tr) == [adapter |-> "TripleAsQuad", f0 |-> tr]
TripleAsQuadFrom(tr, name) == [adapter |-> "TripleAsQuadFrom", f0 |-> tr, f1 |-> name]

\* Triple::as_quad, Triple::as_quad_from
Triple_as_quad(self) == TripleAsQuad(self)
Triple_as_quad_from(self, name) == TripleAsQuadFrom(self, name)

\* TripleAsQuad::unwrap, TripleAsQuadFrom::unwrap
TripleAsQuad_unwrap(self) == self.f0
TripleAsQuadFrom_unwrap(self) == self.f0

\* impl Quad for TripleAsQuad<T>
TripleAsQuad_s(self) == Triple_s(self.f0)
TripleAsQuad_p(self) == Triple_p(self.f0)
TripleAsQuad_o(self) == Triple_o(self.f0)
TripleAsQuad_g(self) == None

\* impl Quad for TripleAsQuadFrom<T>
TripleAsQuadFrom_s(self) == Triple_s(self.f0)
TripleAsQuadFrom_p(self) == Triple_p(self.f0)
TripleAsQuadFrom_o(self) == Triple_o(self.f0)

\* TripleAsQuadFrom::g answering as TripleAsQuad::g does.
TripleAsQuadFrom_g_default(self) == None

TripleAsQuadFrom_g(self) == Some(self.f1)

\* Quad::s, p, o, g and unwrap, dispatched on the adapter.
Quad_s(self) ==
    IF self.adapter = "TripleAsQuad" THEN TripleAsQuad_s(self) ELSE TripleAsQuadFrom_s(self)
Quad_p(self) ==
    IF self.adapter = "TripleAsQuad" THEN TripleAsQuad_p(self) ELSE TripleAsQuadFrom_p(self)
Quad_o(self) ==
    IF self.adapter = "TripleAsQuad" THEN TripleAsQuad_o(self) ELSE TripleAsQuadFrom_o(self)
Quad_g(self) ==
    IF self.adapter = "TripleAsQuad" THEN TripleAsQuad_g(self) ELSE TripleAsQuadFrom_g(self)
Adapter_unwrap(self) ==
    IF self.adapter = "TripleAsQuad"
    THEN TripleAsQuad_unwrap(self)
    ELSE TripleAsQuadFrom_unwrap(self)

\* The terms of a triple share one storage strategy, as does the graph name.
QTermsOf(td) ==
    {IriTerm(MkIri(td, Champin, <<>>)),
     IriTerm(MkIri(td, <<"c", "#">>, <<"p">>)),
     Literal(td, <<"c">>, Lang(Factory(td, <<"f">>))),
     BNode(td, <<"c">>)}
QTds == {BoxTd, RcTd}

TriplesOf(td) ==
    UNION {{ArrayTriple(s, p, o), RefArrayTriple(s, p, o), RefTriple(ArrayTriple(s, p, o))} :
             s \in QTermsOf(td), p \in QTermsOf(td), o \in QTermsOf(td)}

\* The storage strategy of a triple's terms.
TripleTd(tr) ==
    IF Triple_s(tr).variant = "Iri" THEN Triple_s(tr).iri.ns.td
    ELSE IF Triple_s(tr).variant = "Literal" THEN Triple_s(tr).txt.td
    ELSE Triple_s(tr).id.td

InitQuad ==
    /\ triple \in {Some(tr) : tr \in UNION {TriplesOf(td) : td \in QTds}}
    /\ quad = None
    /\ orig = [t |-> Unwrap(triple), g |-> None]
    /\ qout = NoOut
    /\ IdleK /\ IdleM /\ IdleP /\ IdleD

\* let q = triple.as_quad();  the triple moves into the adapter.
QAsQuad ==
    /\ IsSome(triple)
    /\ quad' = Some(Triple_as_quad(Unwrap(triple)))
    /\ triple' = None
    /\ orig' = [t |-> Unwrap(triple), g |-> None]
    /\ qout' = [op |-> "as_quad", val |-> <<>>]
    /\ UNCHANGED <<kvars, mvars, pvars, dvars>>

\* let q = triple.as_quad_from(name);
QAsQuadFrom(name) ==
    /\ IsSome(triple)
    /\ quad' = Some(Triple_as_quad_from(Unwrap(triple), name))
    /\ triple' = None
    /\ orig' = [t |-> Unwrap(triple), g |-> Some(name)]
    /\ qout' = [op |-> "as_quad_from", val |-> <<>>]
    /\ UNCHANGED <<kvars, mvars, pvars, dvars>>

\* q.s()
QS ==
    /\ IsSome(quad)
    /\ qout' = [op |-> "s", val |-> Quad_s(Unwrap(quad))]
    /\ UNCHANGED <<triple, quad, orig, kvars, mvars, pvars, dvars>>

\* q.p()
QP ==
    /\ IsSome(quad)
    /\ qout' = [op |-> "p", val |-> Quad_p(Unwrap(quad))]
    /\ UNCHANGED <<triple, quad, orig, kvars, mvars, pvars, dvars>>

\* q.o()
QO ==
    /\ IsSome(quad)
    /\ qout' = [op |-> "o", val |-> Quad_o(Unwrap(quad))]
    /\ UNCHANGED <<triple, quad, orig, kvars, mvars, pvars, dvars>>

\* q.g()
QG ==
    /\ IsSome(quad)
    /\ qout' = [op |-> "g", val |-> Quad_g(Unwrap(quad))]
    /\ UNCHANGED <<triple, quad, orig, kvars, mvars, pvars, dvars>>

\* let triple = q.unwrap();  the adapter is consumed.
QUnwrap ==
    /\ IsSome(quad)
    /\ triple' = Some(Adapter_unwrap(Unwrap(quad)))
    /\ quad' = None
    /\ qout' = [op |-> "unwrap", val |-> Adapter_unwrap(Unwrap(quad))]
    /\ UNCHANGED <<orig, kvars, mvars, pvars, dvars>>

NextQuad ==
    \/ QAsQuad
    \/ \E name \in QTermsOf(TripleTd(orig.t)) : QAsQuadFrom(name)
    \/ QS
    \/ QP
    \/ QO
    \/ QG
    \/ QUnwrap

SpecQuad == InitQuad /\ [][NextQuad]_vars

\* C5: while a triple is wrapped, s(), p(), o() answer the wrapped triple's
\* own terms and g() answers None (as_quad) or the name given (as_quad_from),
\* before and after any other accessor call; unwrap hands the wrapped triple
\* back, without the graph name.
C5_ViewRoundTrip ==
    /\ IsSome(quad) =>
          /\ Quad_s(Unwrap(quad)) = Triple_s(orig.t)
          /\ Quad_p(Unwrap(quad)) = Triple_p(orig.t)
          /\ Quad_o(Unwrap(quad)) = Triple_o(orig.t)
          /\ Quad_g(Unwrap(quad)) = orig.g
          /\ Unwrap(quad).adapter = "TripleAsQuad" <=> orig.g = None
          /\ Adapter_unwrap(Unwrap(quad)) = orig.t
    /\ qout.op = "s" => qout.val = Triple_s(orig.t)
    /\ qout.op = "p" => qout.val = Triple_p(orig.t)
    /\ qout.op = "o" => qout.val = Triple_o(orig.t)
    /\ qout.op = "g" => qout.val = orig.g
    /\ qout.op = "unwrap" => qout.val = orig.t /\ triple = Some(orig.t)

\* A triple wrapped with a graph name that is none of its own terms was
\* unwrapped again.
C5_Witness ==
    /\ qout.op = "unwrap"
    /\ IsSome(orig.g)
    /\ Unwrap(orig.g) \notin {Triple_s(orig.t), Triple_p(orig.t), Triple_o(orig.t)}
    /\ Cardinality({Triple_s(orig.t), Triple_p(orig.t), Triple_o(orig.t)}) = 3
    /\ triple = Some(orig.t)

\* ------------------------------------------------------------- TriGParser

MaxInputLen == 3

\* The identifier used when no base is configured.
NoBase == <<"x-no-base:///">>
LocalBase == <<"h", ":", "/">>

\* The input holds statements: well-formed ones, each yielding one quad, and
\* malformed ones.  The subject of "q1" and "q2" is an absolute IRI, that of
\* "r1" the relative reference <#me>.
RelStatements == {"r1"}
GoodStatements == {"q1", "q2"} \cup RelStatements
Statements == GoodStatements \cup {"bad"}

\* The IRI reference a statement holds, as written in the input.
StatementIri(st) ==
    IF st \in RelStatements THEN <<"#", "m">>
    ELSE IF st = "q1" THEN <<"e", ":", "1">>
    ELSE <<"e", ":", "2">>

\* The parser resolves a reference against the base it was given: an
\* absolute IRI stands as it is, <#me> becomes the base followed by #me.
Resolve(base, st) ==
    IF st \in RelStatements THEN base \o StatementIri(st) ELSE StatementIri(st)

\* The quad a well-formed statement yields.
RioQuad(base, st) == [st |-> st, iri |-> Resolve(base, st)]

\* RioTriGParser::new(data, base): nothing is read yet.
RioTriGParser_new(data, base) == [data |-> data, base |-> base, pos |-> 1]

\* StrictRioSource::from(parser)
StrictRioSource_from(rio) == [rio |-> rio, failed |-> FALSE]

\* TriGParser::parse handing the parser an empty base when none is configured.
TriGParser_parse_empty_base(self, data) ==
    LET base == IF IsSome(self.base) THEN Unwrap(self.base) ELSE <<>>
    IN StrictRioSource_from(RioTriGParser_new(data, base))

\* impl QuadParser<B> for TriGParser: parse
TriGParser_parse(self, data) ==
    LET base == IF IsSome(self.base) THEN Unwrap(self.base) ELSE NoBase
    IN StrictRioSource_from(RioTriGParser_new(data, base))

EndOfStream == [kind |-> "end"]
ParseError == [kind |-> "error"]
Fact(st) == [kind |-> "fact", item |-> st]

\* What a pull may answer once the source has failed: anything but a fact.
AfterFailure == {EndOfStream, ParseError}

\* One pull from a source that skips a malformed statement and goes on.
StrictRioSource_pull_lenient(self, late) ==
    IF self.rio.pos > Len(self.rio.data)
    THEN [src |-> self, res |-> EndOfStream]
    ELSE IF self.rio.data[self.rio.pos] = "bad"
    THEN [src |-> [self EXCEPT !.rio.pos = @ + 1], res |-> ParseError]
    ELSE [src |-> [self EXCEPT !.rio.pos = @ + 1],
          res |-> Fact(RioQuad(self.rio.base, self.rio.data[self.rio.pos]))]

\* One pull from the source: the source after it and the answer.  `late` is
\* the answer chosen for a pull that comes after a failure.
StrictRioSource_pull(self, late) ==
    IF self.failed
    THEN [src |-> self, res |-> late]
    ELSE IF self.rio.pos > Len(self.rio.data)
    THEN [src |-> self, res |-> EndOfStream]
    ELSE IF self.rio.data[self.rio.pos] = "bad"
    THEN [src |-> [self EXCEPT !.failed = TRUE], res |-> ParseError]
    ELSE [src |-> [self EXCEPT !.rio.pos = @ + 1],
          res |-> Fact(RioQuad(self.rio.base, self.rio.data[self.rio.pos]))]

Inputs == SeqsOf(Statements, 0, MaxInputLen)

InitParser ==
    /\ parser \in {[base |-> None], [base |-> Some(LocalBase)]}
    /\ stream = None
    /\ pout = NoOut
    /\ IdleK /\ IdleM /\ IdleQ /\ IdleD

\* let source = parser.parse(data);  a fresh input, a fresh sequence.
PParse(data) ==
    /\ stream = None
    /\ stream' = Some(TriGParser_parse(parser, data))
    /\ pout' = [op |-> "parse", val |-> <<>>, after_error |-> FALSE, pulls |-> 0]
    /\ UNCHANGED <<parser, kvars, mvars, qvars, dvars>>

\* One pull from the source.  pout keeps the history of this source: the
\* number of pulls so far and whether an earlier pull failed.
PPull(late) ==
    /\ IsSome(stream)
    /\ pout.pulls <= MaxInputLen + 1
    /\ LET r == StrictRioSource_pull(Unwrap(stream), late)
       IN /\ stream' = Some(r.src)
          /\ pout' = [op |-> "pull",
                      val |-> r.res,
                      after_error |-> pout.after_error
                                      \/ (pout.op = "pull" /\ pout.val = ParseError),
                      pulls |-> pout.pulls + 1]
    /\ UNCHANGED <<parser, kvars, mvars, qvars, dvars>>

NextParser ==
    \/ \E data \in Inputs : PParse(data)
    \/ \E late \in AfterFailure : PPull(late)

SpecParser == InitParser /\ [][NextParser]_vars

\* The statements of the input before the first malformed one.
RECURSIVE GoodPrefixLen(_, _)
GoodPrefixLen(data, i) ==
    IF i > Len(data) \/ data[i] = "bad" THEN i - 1 ELSE GoodPrefixLen(data, i + 1)

\* C6: a pull answers the next fact of the input, end-of-stream or a
\* ParseError; the facts come in input order up to the first malformed
\* statement, whose pull fails, and no pull after a failed one answers a fact.
C6_ErrorExhausts ==
    pout.op = "pull" =>
        LET data == Unwrap(stream).rio.data
            good == GoodPrefixLen(data, 1)
        IN /\ pout.val.kind \in {"fact", "end", "error"}
           /\ pout.after_error => pout.val.kind # "fact"
           /\ ~pout.after_error =>
                 /\ pout.pulls <= good =>
                       pout.val.kind = "fact" /\ pout.val.item.st = data[pout.pulls]
                 /\ pout.pulls > good /\ good < Len(data) => pout.val = ParseError
                 /\ pout.pulls > good /\ good = Len(data) => pout.val = EndOfStream

\* A pull was made after a failed one, with well-formed statements still
\* unread behind the malformed one.
C6_Witness ==
    /\ pout.op = "pull"
    /\ pout.after_error
    /\ LET data == Unwrap(stream).rio.data
       IN /\ GoodPrefixLen(data, 1) >= 1
          /\ \E i \in (GoodPrefixLen(data, 1) + 2)..Len(data) : data[i] \in GoodStatements

\* The base a parser works with: the configured one, or the sentinel.
BaseOf(p) == IF IsSome(p.base) THEN Unwrap(p.base) ELSE NoBase

MaxTxtLen == 2

\* The characters escaped inside a quoted literal, and the letter each is
\* written as after the backslash.
Escaped == {"\n", "\r", "\\", "\""}
EscapeLetter(c) ==
    IF c = "\n" THEN "n" ELSE IF c = "\r" THEN "r" ELSE c

\* The lexical value, character by character, with the escapes.
RECURSIVE quoted_string(_, _)
quoted_string(w, txt) ==
    IF txt = <<>> THEN w
    ELSE IF Head(txt) \in Escaped
    THEN quoted_string(w \o <<"\\", EscapeLetter(Head(txt))>>, Tail(txt))
    ELSE quoted_string(w \o <<Head(txt)>>, Tail(txt))

\* Iri::write_fmt: <ns suffix>
Iri_write_fmt(w, iri) == w \o <<"<">> \o IriValue(iri) \o <<">">>

\* BNode::write_fmt: _:id
BNode_write_fmt(w, bn) == w \o <<"_", ":">> \o AsRef(bn.id)

\* Literal::write_fmt: "txt", then @tag, or ^^<datatype> unless xsd:string.
Literal_write_fmt(w, lit) ==
    LET quoted == quoted_string(w \o <<"\"">>, AsRef(lit.txt)) \o <<"\"">>
    IN IF lit.kind.variant = "Lang"
       THEN quoted \o <<"@">> \o AsRef(lit.kind.tag)
       ELSE IF IriValue(lit.kind.iri) = XsdString
       THEN quoted
       ELSE Iri_write_fmt(quoted \o <<"^", "^">>, lit.kind.iri)

\* Variable::write_fmt: ?name
Variable_write_fmt(w, var) == w \o <<"?">> \o AsRef(var.name)

\* write_term with an empty Literal arm.
write_term_no_literal(w, x) ==
    IF x.variant = "Iri" THEN Iri_write_fmt(w, x.iri)
    ELSE IF x.variant = "BNode" THEN BNode_write_fmt(w, x)
    ELSE IF x.variant = "Literal" THEN w
    ELSE Variable_write_fmt(w, x)

\* fn write_term(w, t)
write_term(w, x) ==
    IF x.variant = "Iri" THEN Iri_write_fmt(w, x.iri)
    ELSE IF x.variant = "BNode" THEN BNode_write_fmt(w, x)
    ELSE IF x.variant = "Literal" THEN Literal_write_fmt(w, x)
    ELSE Variable_write_fmt(w, x)

\* impl Display for Term: format!("{}", term) writes into a fresh buffer.
Term_fmt(self) == write_term(<<>>, self)

\* Lexical values over: a letter, the four escaped characters, a non-ASCII
\* character.
TxtChars == {"n", "\n", "\r", "\\", "\"", "U+00E9"}
Txts == SeqsOf(TxtChars, 0, MaxTxtLen)

DKinds ==
    {Lang(Factory(RefTd, <<"f", "-", "F">>))}
    \cup {Datatype(iri) : iri \in SplitsOf(RefTd, XsdString) \cup SplitsOf(RefTd, XsdInteger)}

NonAsciiIri == <<"e", "/", "U+00E9", "/">>
DTerms ==
    {Literal(RefTd, txt, kind) : txt \in Txts, kind \in DKinds}
    \cup {IriTerm(iri) : iri \in SplitsOf(RefTd, Champin) \cup SplitsOf(RefTd, NonAsciiIri)}
    \cup {BNode(RefTd, <<"c">>), Variable(RefTd, <<"c">>)}

InitDisplay ==
    /\ dterm \in DTerms
    /\ dout = NoOut
    /\ IdleK /\ IdleM /\ IdleQ /\ IdleP

\* format!("{}", dterm)
DFormat ==
    /\ dout' = [op |-> "fmt", val |-> Term_fmt(dterm)]
    /\ UNCHANGED <<dterm, kvars, mvars, qvars, pvars>>

NextDisplay == DFormat

SpecDisplay == InitDisplay /\ [][NextDisplay]_vars

\* Reading a quoted body back: a backslash and the letter after it stand for
\* one character.
RECURSIVE Unescape(_)
Unescape(s) ==
    IF s = <<>> THEN <<>>
    ELSE IF Head(s) = "\\" /\ Len(s) >= 2
    THEN <<(IF s[2] = "n" THEN "\n" ELSE IF s[2] = "r" THEN "\r" ELSE s[2])>>
         \o Unescape(SubSeq(s, 3, Len(s)))
    ELSE <<Head(s)>> \o Unescape(Tail(s))

\* How many characters of a text need an escape.
NumEscaped(txt) == Cardinality({i \in 1..Len(txt) : txt[i] \in Escaped})

====
